---- MODULE Spec2Model ----
(***************************************************************************)
(* The notebook sagemaker-notebook.ipynb as a state machine.               *)
(*                                                                         *)
(* The code cells run in order in one kernel.  Every remote call blocks:   *)
(* it is issued, is in flight, and then returns or raises.  An exception   *)
(* that no try/except catches ends the run (pc = "raised").                *)
(* The remote platform keeps the model, the endpoint configuration and the *)
(* endpoint; the endpoint is deployed by the platform after                *)
(* create_endpoint has returned.                                           *)
(***************************************************************************)
EXTENDS Integers, Sequences, FiniteSets, TLC

VARIABLES
    pc,          \* the statement the kernel is at
    version,     \* sagemaker.__version__, a string as its code points
    guard,       \* outcome of the assert of cell 09df747b
    role,        \* the notebook variable `role`
    inflight,    \* the remote calls issued and not yet answered
    log,         \* the control-plane / account calls issued, with outcome
    models,      \* platform: model resources
    configs,     \* platform: endpoint-configuration resources
    endpoints,   \* platform: endpoint resources
    i,           \* the loop variable of the load test
    sent,        \* inference requests issued, per cell and target
    recent       \* the targets of the last two inference requests

vars == <<pc, version, guard, role, inflight, log, models, configs,
          endpoints, i, sent, recent>>

(***************************************************************************)
(* Strings whose characters matter are sequences of code points.           *)
(***************************************************************************)
RECURSIVE Digits(_)
Digits(n) ==
    IF n < 10 THEN <<48 + n>> ELSE Digits(n \div 10) \o <<48 + (n % 10)>>

\* "<major>.<minor>.<patch>", the form of sagemaker.__version__
FormatVersion(t) ==
    Digits(t[1]) \o <<46>> \o Digits(t[2]) \o <<46>> \o Digits(t[3])

\* the versions pip may install
Majors == {1, 2, 3, 10}
Minors == {9, 75, 100}
Patches == {0, 10}
InstallableVersions ==
    {FormatVersion(<<a, b, c>>) : a \in Majors, b \in Minors, c \in Patches}

\* the literal "2.75.0"
MinVersionStr == <<50, 46, 55, 53, 46, 48>>

\* Python's >= on str: lexicographic by code point, a proper prefix is less
RECURSIVE StrGE(_, _)
StrGE(a, b) ==
    IF b = <<>> THEN TRUE
    ELSE IF a = <<>> THEN FALSE
    ELSE IF a[1] # b[1] THEN a[1] > b[1]
    ELSE StrGE(Tail(a), Tail(b))

\* sagemaker.__version__ >= "2.75.0"
VersionCheck(v) == StrGE(v, MinVersionStr)

(***************************************************************************)
(* The notebook's constants and payload descriptions.                      *)
(***************************************************************************)
Unbound == "<unbound>"
SessionRoleArn == "arn:session-execution-role"
NamedRoleArn == "arn:sagemaker_execution_role"

deployment_name == "multi-container-sentiment"
instance_type == "ml.c5.4xlarge"
hf_inference_dlc == "huggingface-pytorch-inference:1.9.1-transformers4.12.3"

englishModel ==
    [Image |-> hf_inference_dlc,
     ContainerHostname |-> "englishModel",
     Environment |->
        [HF_MODEL_ID |-> "distilbert-base-uncased-finetuned-sst-2-english",
         HF_TASK |-> "text-classification"]]

germanModel ==
    [Image |-> hf_inference_dlc,
     ContainerHostname |-> "germanModel",
     Environment |->
        [HF_MODEL_ID |-> "oliverguhr/german-sentiment-bert",
         HF_TASK |-> "text-classification"]]

inferenceExecutionConfig == [Mode |-> "Direct"]

\* range(1000)
LoopCount == 1000

Targets == {"englishModel", "germanModel"}
Cells == {"boto3", "predictor", "loadtest"}

(***************************************************************************)
(* The arguments of each remote call, as the cells build them.             *)
(***************************************************************************)
\* variant: create_model without the InferenceExecutionConfig argument
CreateModelArgsNoMode ==
    [ModelName |-> deployment_name \o "-model",
     ExecutionRoleArn |-> role,
     Containers |-> <<englishModel, germanModel>>]

CreateModelArgs ==
    [ModelName |-> deployment_name \o "-model",
     InferenceExecutionConfig |-> inferenceExecutionConfig,
     ExecutionRoleArn |-> role,
     Containers |-> <<englishModel, germanModel>>]

\* variant: the production variant names the deployment, not its model
CreateEndpointConfigArgsOtherModel ==
    [EndpointConfigName |-> deployment_name \o "-config",
     ProductionVariants |->
        <<[VariantName |-> "AllTraffic",
           ModelName |-> deployment_name,
           InitialInstanceCount |-> 1,
           InstanceType |-> instance_type]>>]

CreateEndpointConfigArgs ==
    [EndpointConfigName |-> deployment_name \o "-config",
     ProductionVariants |->
        <<[VariantName |-> "AllTraffic",
           ModelName |-> deployment_name \o "-model",
           InitialInstanceCount |-> 1,
           InstanceType |-> instance_type]>>]

CreateEndpointArgs ==
    [EndpointName |-> deployment_name \o "-ep",
     EndpointConfigName |-> deployment_name \o "-config"]

InvokeEnglishArgs ==
    [EndpointName |-> deployment_name \o "-ep",
     TargetContainerHostname |-> "englishModel"]

\* variant: the hostname misspelt
InvokeGermanArgsTypo ==
    [EndpointName |-> deployment_name \o "-ep",
     TargetContainerHostname |-> "germanmodel"]

InvokeGermanArgs ==
    [EndpointName |-> deployment_name \o "-ep",
     TargetContainerHostname |-> "germanModel"]

\* HuggingFacePredictor(f"{deployment_name}-ep")
predictor == [endpoint_name |-> deployment_name \o "-ep"]

PredictEnglishArgs ==
    [EndpointName |-> predictor.endpoint_name,
     TargetContainerHostname |-> "englishModel"]

PredictGermanArgs ==
    [EndpointName |-> predictor.endpoint_name,
     TargetContainerHostname |-> "germanModel"]

(***************************************************************************)
(* Issuing a blocking call and receiving its answer.                       *)
(***************************************************************************)
\* variant: calls are fired without waiting for the previous answer
MayIssueAsync == TRUE

\* a statement starts only when the previous call has been answered
MayIssue == inflight = <<>>

Call(api, args) == [api |-> api, args |-> args]

Waiting(label, api) ==
    /\ pc = label
    /\ Len(inflight) > 0
    /\ inflight[1].api = api

\* a logged call is issued
Issue(label, api, args) ==
    /\ pc = label
    /\ MayIssue
    /\ inflight' = Append(inflight, Call(api, args))
    /\ log' = Append(log, [api |-> api, args |-> args, outcome |-> "pending"])

Answered(outcome) ==
    /\ inflight' = Tail(inflight)
    /\ log' = [log EXCEPT ![Len(log)].outcome = outcome]

NoArgs == [none |-> TRUE]

Init ==
    /\ pc = "pip_install"
    /\ version = <<>>
    /\ guard = "pending"
    /\ role = Unbound
    /\ inflight = <<>>
    /\ log = <<>>
    /\ models = {}
    /\ configs = {}
    /\ endpoints = {}
    /\ i = 0
    /\ sent = [p \in Cells \X Targets |-> 0]
    /\ recent = <<>>

(***************************************************************************)
(* Cell 69c59d90 and cell 09df747b: the SDK and its version guard.         *)
(***************************************************************************)
PipInstall ==
    /\ pc = "pip_install"
    /\ \E v \in InstallableVersions : version' = v
    /\ pc' = "version_guard"
    /\ UNCHANGED <<guard, role, inflight, log, models, configs, endpoints,
                   i, sent, recent>>

VersionGuard ==
    /\ pc = "version_guard"
    /\ IF VersionCheck(version)
       THEN guard' = "passed" /\ pc' = "default_bucket"
       ELSE guard' = "failed" /\ pc' = "raised"
    /\ UNCHANGED <<version, role, inflight, log, models, configs, endpoints,
                   i, sent, recent>>

(***************************************************************************)
(* Cell 1c22e8d5: session bucket and execution role.                       *)
(***************************************************************************)
Frame == UNCHANGED <<version, guard, models, configs, endpoints, i, sent,
                     recent>>

DefaultBucketCall ==
    /\ Issue("default_bucket", "default_bucket", NoArgs)
    /\ UNCHANGED <<pc, role>>
    /\ Frame

DefaultBucketAnswer ==
    /\ Waiting("default_bucket", "default_bucket")
    /\ \/ Answered("returned") /\ pc' = "get_execution_role"
       \/ Answered("raised") /\ pc' = "raised"
    /\ UNCHANGED role
    /\ Frame

GetExecutionRoleCall ==
    /\ Issue("get_execution_role", "get_execution_role", NoArgs)
    /\ UNCHANGED <<pc, role>>
    /\ Frame

\* variant: a bare except, every exception falls back to the IAM lookup
GetExecutionRoleAnswerCatchAll ==
    /\ Waiting("get_execution_role", "get_execution_role")
    /\ \/ /\ Answered("returned")
          /\ role' = SessionRoleArn
          /\ pc' = "new_session"
       \/ /\ \E x \in {"ValueError", "raised"} : Answered(x)
          /\ role' = role
          /\ pc' = "iam_get_role"
    /\ Frame

\* try: role = sagemaker.get_execution_role()  except ValueError: ...
GetExecutionRoleAnswer ==
    /\ Waiting("get_execution_role", "get_execution_role")
    /\ \/ /\ Answered("returned")
          /\ role' = SessionRoleArn
          /\ pc' = "new_session"
       \/ /\ Answered("ValueError")
          /\ role' = role
          /\ pc' = "iam_get_role"
       \/ /\ Answered("raised")
          /\ role' = role
          /\ pc' = "raised"
    /\ Frame

IamGetRoleCall ==
    /\ Issue("iam_get_role", "iam.get_role",
             [RoleName |-> "sagemaker_execution_role"])
    /\ UNCHANGED <<pc, role>>
    /\ Frame

IamGetRoleAnswer ==
    /\ Waiting("iam_get_role", "iam.get_role")
    /\ \/ /\ Answered("returned")
          /\ role' = NamedRoleArn
          /\ pc' = "new_session"
       \/ /\ Answered("raised")
          /\ role' = role
          /\ pc' = "raised"
    /\ Frame

\* print(f"sagemaker bucket: {sess.default_bucket()}")
PrintBucketCall ==
    /\ Issue("new_session", "default_bucket", NoArgs)
    /\ UNCHANGED <<pc, role>>
    /\ Frame

PrintBucketAnswer ==
    /\ Waiting("new_session", "default_bucket")
    /\ \/ Answered("returned") /\ pc' = "create_model"
       \/ Answered("raised") /\ pc' = "raised"
    /\ UNCHANGED role
    /\ Frame

(***************************************************************************)
(* The platform's side of the calls.                                       *)
(***************************************************************************)
\* the model resource a create_model request registers; a request without
\* InferenceExecutionConfig gets the default mode, Serial
ModelResource(a) ==
    [ModelName |-> a.ModelName,
     Mode |-> IF "InferenceExecutionConfig" \in DOMAIN a
              THEN a.InferenceExecutionConfig.Mode
              ELSE "Serial",
     Containers |-> a.Containers,
     ExecutionRoleArn |-> a.ExecutionRoleArn]

ConfigResource(a) ==
    [EndpointConfigName |-> a.EndpointConfigName,
     ModelName |-> a.ProductionVariants[1].ModelName]

\* a new endpoint is not in service when create_endpoint returns
EndpointResource(a) ==
    [EndpointName |-> a.EndpointName,
     EndpointConfigName |-> a.EndpointConfigName,
     Status |-> "Creating"]

Hostnames(m) ==
    {m.Containers[k].ContainerHostname : k \in 1..Len(m.Containers)}

\* the models behind the endpoint of that name
ModelsBehind(name) ==
    {m \in models :
        \E e \in endpoints, c \in configs :
            /\ e.EndpointName = name
            /\ c.EndpointConfigName = e.EndpointConfigName
            /\ m.ModelName = c.ModelName}

\* the platform can answer a request only at an endpoint in service whose
\* model declares the target container
Served(a) ==
    /\ \E e \in endpoints :
          e.EndpointName = a.EndpointName /\ e.Status = "InService"
    /\ \E m \in ModelsBehind(a.EndpointName) :
          a.TargetContainerHostname \in Hostnames(m)

\* "this will take a few minutes to deploy"
EndpointDeploys ==
    /\ \E e \in endpoints :
          /\ e.Status = "Creating"
          /\ \E s \in {"InService", "Failed"} :
                endpoints' = (endpoints \ {e}) \cup {[e EXCEPT !.Status = s]}
    /\ UNCHANGED <<pc, version, guard, role, inflight, log, models, configs,
                   i, sent, recent>>

(***************************************************************************)
(* Cell 1800c972: create model, endpoint configuration and endpoint.       *)
(***************************************************************************)
Local == UNCHANGED <<version, guard, role, i, sent, recent>>

CreateModelCall ==
    /\ Issue("create_model", "create_model", CreateModelArgs)
    /\ UNCHANGED <<pc, models, configs, endpoints>>
    /\ Local

\* variant: the exception of create_model is swallowed
CreateModelAnswerSwallow ==
    /\ Waiting("create_model", "create_model")
    /\ \/ /\ Answered("returned")
          /\ models' = models \cup {ModelResource(inflight[1].args)}
       \/ /\ Answered("raised")
          /\ models' = models
    /\ pc' = "create_endpoint_config"
    /\ UNCHANGED <<configs, endpoints>>
    /\ Local

CreateModelAnswer ==
    /\ Waiting("create_model", "create_model")
    /\ \/ /\ Answered("returned")
          /\ models' = models \cup {ModelResource(inflight[1].args)}
          /\ pc' = "create_endpoint_config"
       \/ /\ Answered("raised")
          /\ models' = models
          /\ pc' = "raised"
    /\ UNCHANGED <<configs, endpoints>>
    /\ Local

CreateEndpointConfigCall ==
    /\ Issue("create_endpoint_config", "create_endpoint_config",
             CreateEndpointConfigArgs)
    /\ UNCHANGED <<pc, models, configs, endpoints>>
    /\ Local

CreateEndpointConfigAnswer ==
    /\ Waiting("create_endpoint_config", "create_endpoint_config")
    /\ \/ /\ Answered("returned")
          /\ configs' = configs \cup {ConfigResource(inflight[1].args)}
          /\ pc' = "create_endpoint"
       \/ /\ Answered("raised")
          /\ configs' = configs
          /\ pc' = "raised"
    /\ UNCHANGED <<models, endpoints>>
    /\ Local

CreateEndpointCall ==
    /\ Issue("create_endpoint", "create_endpoint", CreateEndpointArgs)
    /\ UNCHANGED <<pc, models, configs, endpoints>>
    /\ Local

CreateEndpointAnswer ==
    /\ Waiting("create_endpoint", "create_endpoint")
    /\ \/ /\ Answered("returned")
          /\ endpoints' = endpoints \cup {EndpointResource(inflight[1].args)}
          \* the next statement is the first invoke_endpoint: no waiter
          /\ pc' = "invoke_en"
       \/ /\ Answered("raised")
          /\ endpoints' = endpoints
          /\ pc' = "raised"
    /\ UNCHANGED <<models, configs>>
    /\ Local

(***************************************************************************)
(* Cells 4c91d180, 6778017c, b8e46df3: single inference requests.          *)
(***************************************************************************)
Push(t) == IF Len(recent) < 2 THEN Append(recent, t) ELSE <<recent[2], t>>

\* an inference request leaves the notebook
Invoke(label, cell, args) ==
    /\ pc = label
    /\ MayIssue
    /\ inflight' = Append(inflight, Call("invoke_endpoint", args))
    /\ sent' = [sent EXCEPT ![<<cell, args.TargetContainerHostname>>] = @ + 1]
    /\ recent' = Push(args.TargetContainerHostname)
    /\ UNCHANGED <<pc, version, guard, role, log, models, configs, endpoints,
                   i>>

\* its response arrives, or the SDK raises
InvokeAnswer(label, next) ==
    /\ Waiting(label, "invoke_endpoint")
    /\ inflight' = Tail(inflight)
    /\ \/ Served(inflight[1].args) /\ pc' = next
       \/ pc' = "raised"
    /\ UNCHANGED <<version, guard, role, log, models, configs, endpoints,
                   i, sent, recent>>

InvokeEnglishCall == Invoke("invoke_en", "boto3", InvokeEnglishArgs)
InvokeEnglishAnswer == InvokeAnswer("invoke_en", "invoke_de")
InvokeGermanCall == Invoke("invoke_de", "boto3", InvokeGermanArgs)
InvokeGermanAnswer == InvokeAnswer("invoke_de", "predict_en")

PredictEnglishCall == Invoke("predict_en", "predictor", PredictEnglishArgs)
PredictEnglishAnswer == InvokeAnswer("predict_en", "predict_de")
PredictGermanCall == Invoke("predict_de", "predictor", PredictGermanArgs)
PredictGermanAnswer == InvokeAnswer("predict_de", "loop_en")

(***************************************************************************)
(* Cell 994b06f0: the load test.                                           *)
(***************************************************************************)
\* the first statement of the loop body
LoopFirstArgs ==
    [EndpointName |-> predictor.endpoint_name,
     TargetContainerHostname |-> "englishModel"]

\* variant: the second statement repeats the first one's target
LoopSecondArgsEnglish ==
    [EndpointName |-> predictor.endpoint_name,
     TargetContainerHostname |-> "englishModel"]

\* the second statement of the loop body
LoopSecondArgs ==
    [EndpointName |-> predictor.endpoint_name,
     TargetContainerHostname |-> "germanModel"]

LoopEnglishCall ==
    /\ i < LoopCount
    /\ Invoke("loop_en", "loadtest", LoopFirstArgs)

LoopEnglishAnswer == InvokeAnswer("loop_en", "loop_de")

LoopGermanCall == Invoke("loop_de", "loadtest", LoopSecondArgs)

\* the body's last statement: the next i, or range(1000) is exhausted
LoopGermanAnswer ==
    /\ Waiting("loop_de", "invoke_endpoint")
    /\ inflight' = Tail(inflight)
    /\ \/ /\ Served(inflight[1].args)
          /\ i' = i + 1
          /\ pc' = IF i + 1 < LoopCount THEN "loop_en" ELSE "delete_model"
       \/ /\ i' = i
          /\ pc' = "raised"
    /\ UNCHANGED <<version, guard, role, log, models, configs, endpoints,
                   sent, recent>>

(***************************************************************************)
(* Cell a73a4b92: teardown through the predictor.                          *)
(***************************************************************************)
\* variant: predictor.delete_endpoint(delete_endpoint_config=False)
KeepEndpointConfig == FALSE

\* Predictor.delete_endpoint(delete_endpoint_config=True) is the default
DeleteEndpointConfigToo == TRUE

DeleteModelCall ==
    /\ Issue("delete_model", "Predictor.delete_model",
             [EndpointName |-> predictor.endpoint_name])
    /\ UNCHANGED <<pc, models, configs, endpoints>>
    /\ Local

\* the predictor finds the model names through the endpoint's configuration
DeleteModelAnswer ==
    /\ Waiting("delete_model", "Predictor.delete_model")
    /\ \/ /\ ModelsBehind(inflight[1].args.EndpointName) # {}
          /\ Answered("returned")
          /\ models' = models \ ModelsBehind(inflight[1].args.EndpointName)
          /\ pc' = "delete_endpoint"
       \/ /\ Answered("raised")
          /\ models' = models
          /\ pc' = "raised"
    /\ UNCHANGED <<configs, endpoints>>
    /\ Local

DeleteEndpointCall ==
    /\ Issue("delete_endpoint", "Predictor.delete_endpoint",
             [EndpointName |-> predictor.endpoint_name])
    /\ UNCHANGED <<pc, models, configs, endpoints>>
    /\ Local

DeleteEndpointAnswer ==
    /\ Waiting("delete_endpoint", "Predictor.delete_endpoint")
    /\ LET gone == {e \in endpoints :
                       e.EndpointName = inflight[1].args.EndpointName}
       IN \/ /\ gone # {}
             /\ Answered("returned")
             /\ endpoints' = endpoints \ gone
             /\ configs' =
                  IF DeleteEndpointConfigToo
                  THEN {c \in configs :
                          \A e \in gone :
                             c.EndpointConfigName # e.EndpointConfigName}
                  ELSE configs
             /\ pc' = "done"
          \/ /\ Answered("raised")
             /\ endpoints' = endpoints
             /\ configs' = configs
             /\ pc' = "raised"
    /\ UNCHANGED models
    /\ Local

Next ==
    \/ PipInstall
    \/ VersionGuard
    \/ DefaultBucketCall
    \/ DefaultBucketAnswer
    \/ GetExecutionRoleCall
    \/ GetExecutionRoleAnswer
    \/ IamGetRoleCall
    \/ IamGetRoleAnswer
    \/ PrintBucketCall
    \/ PrintBucketAnswer
    \/ CreateModelCall
    \/ CreateModelAnswer
    \/ CreateEndpointConfigCall
    \/ CreateEndpointConfigAnswer
    \/ CreateEndpointCall
    \/ CreateEndpointAnswer
    \/ EndpointDeploys
    \/ InvokeEnglishCall
    \/ InvokeEnglishAnswer
    \/ InvokeGermanCall
    \/ InvokeGermanAnswer
    \/ PredictEnglishCall
    \/ PredictEnglishAnswer
    \/ PredictGermanCall
    \/ PredictGermanAnswer
    \/ LoopEnglishCall
    \/ LoopEnglishAnswer
    \/ LoopGermanCall
    \/ LoopGermanAnswer
    \/ DeleteModelCall
    \/ DeleteModelAnswer
    \/ DeleteEndpointCall
    \/ DeleteEndpointAnswer

Spec == Init /\ [][Next]_vars

(***************************************************************************)
(* Properties.                                                             *)
(***************************************************************************)
CreateApis == {"create_model", "create_endpoint_config", "create_endpoint"}

Logged(api) == {k \in 1..Len(log) : log[k].api = api}

Returned(api) == {k \in Logged(api) : log[k].outcome = "returned"}

Requests ==
    {inflight[k] : k \in {j \in 1..Len(inflight) :
                             inflight[j].api = "invoke_endpoint"}}

LoadSent(t) == sent[<<"loadtest", t>>]

\* C1: the deployment step issues create_model, create_endpoint_config and
\* create_endpoint in this order, each once and only after the previous one
\* has returned; the configuration names the model passed to create_model
\* and the endpoint names the configuration passed to
\* create_endpoint_config; no configuration or endpoint exists whose model
\* or configuration was not created before.
C1_DeploymentOrder ==
    LET creates == SelectSeq(log, LAMBDA c : c.api \in CreateApis)
        order == <<"create_model", "create_endpoint_config",
                   "create_endpoint">>
    IN /\ Len(creates) <= 3
       /\ \A k \in 1..Len(creates) : creates[k].api = order[k]
       /\ \A k \in 2..Len(creates) : creates[k - 1].outcome = "returned"
       /\ Len(creates) >= 2 =>
            creates[2].args.ProductionVariants[1].ModelName
               = creates[1].args.ModelName
       /\ Len(creates) = 3 =>
            creates[3].args.EndpointConfigName
               = creates[2].args.EndpointConfigName
       /\ \A c \in configs :
            \E k \in Returned("create_model") :
               log[k].args.ModelName = c.ModelName
       /\ \A e \in endpoints :
            \E k \in Returned("create_endpoint_config") :
               log[k].args.EndpointConfigName = e.EndpointConfigName
       /\ pc \in {"invoke_en", "loop_en", "delete_model", "done"} =>
            Len(creates) = 3

C1_Witness ==
    /\ endpoints # {}
    /\ configs # {}
    /\ models # {}
    /\ Returned("create_endpoint") # {}

\* C2: every inference request names the endpoint passed to create_endpoint
\* and carries a TargetContainerHostname that is the ContainerHostname of
\* one of the containers passed to create_model; the declared hostnames are
\* pairwise distinct.
C2_RequestsRouted ==
    \A r \in Requests :
        /\ "TargetContainerHostname" \in DOMAIN r.args
        /\ \E k \in Logged("create_endpoint") :
              log[k].args.EndpointName = r.args.EndpointName
        /\ \E k \in Logged("create_model") :
              LET cs == log[k].args.Containers
              IN /\ \E n \in 1..Len(cs) :
                       cs[n].ContainerHostname = r.args.TargetContainerHostname
                 /\ \A m, n \in 1..Len(cs) :
                       cs[m].ContainerHostname = cs[n].ContainerHostname
                          => m = n

C2_Witness ==
    /\ pc = "loop_de"
    /\ i > 0
    /\ \E r \in Requests : r.args.TargetContainerHostname = "germanModel"

\* C3: the IAM lookup is called only after get_execution_role raised
\* ValueError; the role is the result of whichever lookup returned and is
\* bound before create_model is called with it; when the fallback lookup
\* fails, or get_execution_role raises anything else, role stays unbound and
\* no create call is issued.
C3_RoleFallback ==
    /\ \A k \in Logged("iam.get_role") :
          /\ k > 1
          /\ log[k - 1].api = "get_execution_role"
          /\ log[k - 1].outcome = "ValueError"
    /\ Returned("get_execution_role") # {} =>
          /\ Logged("iam.get_role") = {}
          /\ role = SessionRoleArn
    /\ Returned("iam.get_role") # {} => role = NamedRoleArn
    /\ \A k \in Logged("create_model") :
          /\ role # Unbound
          /\ log[k].args.ExecutionRoleArn = role
    /\ \A k \in Logged("get_execution_role") \cup Logged("iam.get_role") :
          log[k].outcome = "raised" =>
             /\ role = Unbound
             /\ \A a \in CreateApis : Logged(a) = {}

C3_Witness ==
    /\ Returned("iam.get_role") # {}
    /\ Logged("create_model") # {}

\* C4: an exception of a remote call outside the role fallback is not caught
\* and not retried: the run ends there, no later call is issued, and no
\* create call is issued twice.
C4_NoCatchNoRetry ==
    /\ [](/\ \A k \in 1..Len(log) :
                log[k].outcome = "raised" =>
                   k = Len(log) /\ pc = "raised" /\ inflight = <<>>
          /\ \A a \in CreateApis : Cardinality(Logged(a)) <= 1)
    /\ [][pc = "raised" =>
             /\ pc' = "raised"
             /\ inflight' = inflight
             /\ log' = log
             /\ sent' = sent]_vars

C4_Witness ==
    /\ \E k \in Logged("create_model") : log[k].outcome = "raised"
    /\ pc = "raised"

\* C5: the load test alternates between the two targets starting with
\* englishModel: the requests sent to englishModel exceed those sent to
\* germanModel by 0 or 1, no two consecutive requests have the same target,
\* and a loop that completes has sent 1000 requests to each.
C5_Alternation ==
    /\ LoadSent("englishModel") - LoadSent("germanModel") \in {0, 1}
    /\ Len(recent) = 2 /\ LoadSent("englishModel") > 0 =>
          recent[1] # recent[2]
    /\ pc \in {"delete_model", "delete_endpoint", "done"} =>
          /\ LoadSent("englishModel") = 1000
          /\ LoadSent("germanModel") = 1000

C5_Witness ==
    /\ pc = "delete_model"
    /\ LoadSent("englishModel") = 1000
    /\ LoadSent("germanModel") = 1000

\* C6: at most one remote call of the notebook is in flight.
C6_OneCallInFlight == Len(inflight) <= 1

C6_Witness ==
    /\ Len(inflight) = 1
    /\ pc = "loop_de"
    /\ i = 1

\* C7: teardown asks for the model's deletion first and the endpoint's
\* second; when both calls have returned none of the created resources
\* remains; no inference request is sent once teardown has started.
C7_Teardown ==
    /\ \A k \in Logged("Predictor.delete_endpoint") :
          /\ k > 1
          /\ log[k - 1].api = "Predictor.delete_model"
          /\ log[k - 1].outcome = "returned"
    /\ Returned("Predictor.delete_endpoint") # {} =>
          /\ models = {}
          /\ configs = {}
          /\ endpoints = {}
    /\ Logged("Predictor.delete_model") # {} => Requests = {}

C7_Witness ==
    /\ pc = "done"
    /\ Returned("Predictor.delete_endpoint") # {}

\* C8: every request that carries a TargetContainerHostname goes to an
\* endpoint whose model was created with mode Direct.
C8_DirectMode ==
    /\ \A k \in Logged("create_model") :
          /\ "InferenceExecutionConfig" \in DOMAIN log[k].args
          /\ log[k].args.InferenceExecutionConfig.Mode = "Direct"
    /\ \A r \in Requests :
          /\ ModelsBehind(r.args.EndpointName) # {}
          /\ \A m \in ModelsBehind(r.args.EndpointName) : m.Mode = "Direct"

C8_Witness ==
    \E r \in Requests :
        /\ Served(r.args)
        /\ r.args.TargetContainerHostname = "englishModel"

\* C9: no inference request is sent before the endpoint is in service.
C9_InServiceBeforeRequest ==
    \A r \in Requests :
        \E e \in endpoints :
            e.EndpointName = r.args.EndpointName /\ e.Status = "InService"

\* the version string read as a tuple of integers
RECURSIVE ParseGroups(_, _, _)
ParseGroups(s, acc, cur) ==
    IF s = <<>> THEN Append(acc, cur)
    ELSE IF s[1] = 46 THEN ParseGroups(Tail(s), Append(acc, cur), 0)
    ELSE ParseGroups(Tail(s), acc, cur * 10 + (s[1] - 48))

ParseVersion(s) == ParseGroups(s, <<>>, 0)

\* >= on tuples of integers
RECURSIVE TupleGE(_, _)
TupleGE(a, b) ==
    IF b = <<>> THEN TRUE
    ELSE IF a = <<>> THEN FALSE
    ELSE IF a[1] # b[1] THEN a[1] > b[1]
    ELSE TupleGE(Tail(a), Tail(b))

\* C10: the version guard passes exactly when the installed version, read
\* as (major, minor, patch), is at least (2, 75, 0).
C10_GuardIsNumeric ==
    guard # "pending" =>
        ((guard = "passed") <=> TupleGE(ParseVersion(version), <<2, 75, 0>>))
====
